---- MODULE Spec2Model ----
(***************************************************************************)
(* Model of the user-authentication service                                *)
(* (0x03-user_authentication_service: user.py, db.py, auth.py) and of the  *)
(* request gate of the session-authentication API                          *)
(* (0x02-Session_authentication: api/v1/app.py, api/v1/auth/*.py).         *)
(*                                                                         *)
(* Python values are encoded as follows.  None is 0 where the value is a   *)
(* uuid or a row id (uuids and ids are numbered from 1) and the string     *)
(* NoneStr where the value is a header or a cookie.  A bcrypt hash is the  *)
(* record [salt, pw]: bcrypt.hashpw is a function of the salt and of the   *)
(* first 72 bytes of the password, the salt is readable from the hash, and *)
(* checkpw re-hashes the candidate with that salt and compares.  uuid4()   *)
(* is modelled as a value never returned before (a counter).               *)
(***************************************************************************)
EXTENDS Integers, Sequences, FiniteSets, TLC

(* ----------------------------- bounds ---------------------------------- *)

\* Number of uuid4() draws explored in one behaviour of the service.
MaxUuid == 2

\* Number of sessions SessionAuth.create_session creates in one behaviour.
MaxSessions == 2

(* ----------------------------- inputs ---------------------------------- *)

Emails == {"a@x.com", "b@x.com"}

Passwords == {"pw1", "pw2"}

\* The salts bcrypt.gensalt() may draw.
Salts == {"salt1", "salt2"}

None == 0

\* Session ids and reset tokens a caller may present: every uuid that can
\* have been issued, one that never is, and None.
Tokens == 0..(MaxUuid + 1)

\* Row ids a caller may present: None, the ids of the rows that can exist,
\* and one id that no row has.
UserIds == 0..(Cardinality(Emails) + 1)

(* ------------------------------ state ---------------------------------- *)

VARIABLES
    users,                  \* the rows of table "users", in rowid order
    nextUuid,               \* number of the next value uuid4() returns
    ret,                    \* the last Auth method called, its first argument
                            \* and what it returned or raised
    loggedOut,              \* history: the session ids that destroy_session
                            \* took from an identity
    consumed,               \* history: the reset tokens that a successful
                            \* update_password was called with
    AUTH_TYPE,              \* app.py: the AUTH_TYPE environment variable
    user_id_by_session_id,  \* SessionAuth's class-level session map
    issued,                 \* session ids SessionAuth.create_session has issued
    request,                \* the last request the gate or SessionAuth handled
    response,               \* what the gate or SessionAuth answered to it
    authCall,               \* a call of Auth.require_auth on its own: its
                            \* arguments and its outcome
    calls,                  \* per concurrent caller: the Auth call it is in, how
                            \* far the call has run, and its outcome
    verified                \* history: the emails for which a valid_login of
                            \* the login sequence has returned True

svcVars == <<users, nextUuid, ret, loggedOut, consumed>>

gateVars == <<AUTH_TYPE, user_id_by_session_id, issued, request, response,
              authCall>>

callerVars == <<calls, verified>>

vars == <<users, nextUuid, ret, loggedOut, consumed,
          AUTH_TYPE, user_id_by_session_id, issued, request, response,
          authCall, calls, verified>>

(* ------------------------ user.py: class User -------------------------- *)

\* The mapped columns of User; hasattr(User, key) is true of these keys.
UserColumns == {"id", "email", "hashed_password", "session_id", "reset_token"}

\* User(email=..., hashed_password=...) once flushed: the id is the
\* autoincremented INTEGER PRIMARY KEY, the nullable columns are NULL.
NewUser(id, email, hashed_password) ==
    [id |-> id, email |-> email, hashed_password |-> hashed_password,
     session_id |-> None, reset_token |-> None]

(* ---------------------------- bcrypt ----------------------------------- *)

\* Passwords of more than 72 bytes: "<72 bytes>" stands for some 72 bytes, and
\* the two passwords differ in what follows them.
LongPasswords == {"<72 bytes>x", "<72 bytes>y"}

\* The part of a password bcrypt hashes: its first 72 bytes.
First72(password) ==
    IF password \in LongPasswords THEN "<72 bytes>" ELSE password

\* bcrypt.hashpw(password, salt)
HashPw(password, salt) == [salt |-> salt, pw |-> First72(password)]

\* Mutant of CheckPw: only the salt of the hash is compared.
CheckPwSaltOnly(password, hashed) == HashPw(password, hashed.salt).salt = hashed.salt

\* bcrypt.checkpw(password, hashed): hashpw(password, hashed's salt) = hashed
CheckPw(password, hashed) == HashPw(password, hashed.salt) = hashed

(* ------------------------------ db.py ---------------------------------- *)

\* Mutant of IsNone: None is compared as any other value, so that it equals
\* the NULL of a row.
IsNoneNever(key, value) == FALSE

\* Whether the value given for column key is None.  email is only ever given
\* as a string (the callers pass the request's form field).
IsNone(key, value) == key # "email" /\ value = None

\* The rows that satisfy "key IN (value)"; a NULL value matches no row.
Matching(key, value) ==
    {i \in DOMAIN users : ~IsNone(key, value) /\ users[i][key] = value}

Min(S) == CHOOSE x \in S : \A y \in S : x <= y

\* DB.find_user_by(key=value): the first matching row, or the exception.
FindUserBy(key, value) ==
    IF key \notin UserColumns
    THEN [exc |-> "InvalidRequestError", row |-> 0]
    ELSE IF Matching(key, value) = {}
    THEN [exc |-> "NoResultFound", row |-> 0]
    ELSE [exc |-> "None", row |-> Min(Matching(key, value))]

\* Mutant of UpdatedRows: the UPDATE without its WHERE clause.
UpdatedRowsEveryRow(user_id, kwargs) ==
    [i \in DOMAIN users |->
        [k \in DOMAIN users[i] |->
            IF k \in DOMAIN kwargs THEN kwargs[k] ELSE users[i][k]]]

\* The table after UPDATE users SET kwargs WHERE id = user_id.
UpdatedRows(user_id, kwargs) ==
    [i \in DOMAIN users |->
        IF users[i].id = user_id
        THEN [k \in DOMAIN users[i] |->
                 IF k \in DOMAIN kwargs THEN kwargs[k] ELSE users[i][k]]
        ELSE users[i]]

\* DB.update_user(user_id, **kwargs): the exception it raises ("None" when it
\* returns) and the table it leaves.
UpdateUser(user_id, kwargs) ==
    IF FindUserBy("id", user_id).exc # "None"
    THEN [exc |-> FindUserBy("id", user_id).exc, rows |-> users]
    ELSE IF \E k \in DOMAIN kwargs : k \notin UserColumns
    THEN [exc |-> "ValueError", rows |-> users]
    ELSE [exc |-> "None", rows |-> UpdatedRows(user_id, kwargs)]

\* DB.add_user(email, hashed_password): the table it leaves and the id of the
\* user it returns (None when the commit raised and was rolled back).
AddUser(email, hashed_password, commits) ==
    IF commits
    THEN [rows |-> Append(users, NewUser(Len(users) + 1, email, hashed_password)),
          user |-> Len(users) + 1]
    ELSE [rows |-> users, user |-> None]

(* ----------------------------- auth.py --------------------------------- *)

\* The outcome of the call op(arg, ...): the kind of value it returned
\* ("None", "bool", "str" for a uuid, "User" for a row, given by its id) and
\* the value, or "raise" and the exception.
Returned(op, arg, kind, val) == [op |-> op, arg |-> arg, kind |-> kind, val |-> val]

Raised(op, arg, exc) == [op |-> op, arg |-> arg, kind |-> "raise", val |-> exc]

\* Mutant of GenerateUuid: a generator that repeats its value.
GenerateUuidRepeats == IF nextUuid > 1 THEN nextUuid - 1 ELSE nextUuid

\* _generate_uuid(): str(uuid4()), a value not returned before.
GenerateUuid == nextUuid

\* Mutant of RegisterUser: a registered email has its password replaced
\* before the ValueError is raised.
RegisterUserOverwrites(email, password, salt, commits) ==
    /\ IF FindUserBy("email", email).exc = "NoResultFound"
       THEN LET added == AddUser(email, HashPw(password, salt), commits)
            IN  /\ users' = added.rows
                /\ ret' = IF added.user = None
                          THEN Returned("register_user", email, "None", None)
                          ELSE Returned("register_user", email, "User", added.user)
       ELSE /\ users' = UpdatedRows(users[FindUserBy("email", email).row].id,
                            [hashed_password |-> HashPw(password, salt)])
            /\ ret' = Raised("register_user", email, "ValueError")
    /\ UNCHANGED <<nextUuid, loggedOut, consumed, gateVars, callerVars>>

\* Mutant of RegisterUser: the lookup by email is left out.
RegisterUserNoLookup(email, password, salt, commits) ==
    /\ LET added == AddUser(email, HashPw(password, salt), commits)
       IN  /\ users' = added.rows
           /\ ret' = IF added.user = None
                     THEN Returned("register_user", email, "None", None)
                     ELSE Returned("register_user", email, "User", added.user)
    /\ UNCHANGED <<nextUuid, loggedOut, consumed, gateVars, callerVars>>

\* Auth.register_user(email, password); salt is what gensalt() draws and
\* commits whether the session's commit succeeds.
RegisterUser(email, password, salt, commits) ==
    /\ IF FindUserBy("email", email).exc = "NoResultFound"
       THEN LET added == AddUser(email, HashPw(password, salt), commits)
            IN  /\ users' = added.rows
                /\ ret' = IF added.user = None
                          THEN Returned("register_user", email, "None", None)
                          ELSE Returned("register_user", email, "User", added.user)
       ELSE /\ users' = users
            /\ ret' = Raised("register_user", email, "ValueError")
    /\ UNCHANGED <<nextUuid, loggedOut, consumed, gateVars, callerVars>>

\* What Auth.valid_login(email, password) returns.
ValidLoginResult(email, password) ==
    IF FindUserBy("email", email).exc = "NoResultFound"
    THEN FALSE
    ELSE CheckPw(password,
             users[FindUserBy("email", email).row].hashed_password)

\* Mutant of ValidLogin: NoResultFound is not caught, so an unknown email
\* raises where a wrong password returns False.
ValidLoginLeaks(email, password) ==
    /\ ret' = IF FindUserBy("email", email).exc = "NoResultFound"
              THEN Raised("valid_login", email, "NoResultFound")
              ELSE Returned("valid_login", email, "bool",
                            ValidLoginResult(email, password))
    /\ UNCHANGED <<users, nextUuid, loggedOut, consumed, gateVars, callerVars>>

\* Auth.valid_login(email, password)
ValidLogin(email, password) ==
    /\ ret' = Returned("valid_login", email, "bool", ValidLoginResult(email, password))
    /\ UNCHANGED <<users, nextUuid, loggedOut, consumed, gateVars, callerVars>>

\* Mutant of CreateSession: the new session id is stored only when the user
\* has none.
CreateSessionKeepsFirst(email) ==
    /\ IF FindUserBy("email", email).exc = "NoResultFound"
       THEN /\ ret' = Returned("create_session", email, "None", None)
            /\ UNCHANGED <<users, nextUuid>>
       ELSE /\ nextUuid <= MaxUuid
            /\ LET user == users[FindUserBy("email", email).row]
                   session_id == GenerateUuid
                   updated == IF user.session_id = None
                              THEN UpdateUser(user.id, [session_id |-> session_id])
                              ELSE [exc |-> "None", rows |-> users]
               IN  /\ users' = updated.rows
                   /\ ret' = IF updated.exc = "None"
                             THEN Returned("create_session", email, "str", session_id)
                             ELSE Raised("create_session", email, updated.exc)
            /\ nextUuid' = nextUuid + 1
    /\ UNCHANGED <<loggedOut, consumed, gateVars, callerVars>>

\* Auth.create_session(email)
CreateSession(email) ==
    /\ IF FindUserBy("email", email).exc = "NoResultFound"
       THEN /\ ret' = Returned("create_session", email, "None", None)
            /\ UNCHANGED <<users, nextUuid>>
       ELSE /\ nextUuid <= MaxUuid
            /\ LET user == users[FindUserBy("email", email).row]
                   session_id == GenerateUuid
                   updated == UpdateUser(user.id, [session_id |-> session_id])
               IN  /\ users' = updated.rows
                   /\ ret' = IF updated.exc = "None"
                             THEN Returned("create_session", email, "str", session_id)
                             ELSE Raised("create_session", email, updated.exc)
            /\ nextUuid' = nextUuid + 1
    /\ UNCHANGED <<loggedOut, consumed, gateVars, callerVars>>

\* Mutant of UserFromSessionId: no test for None, and a lookup that compares
\* as Python does (None equals the NULL of a row that has no session).
UserFromSessionIdNoGuard(session_id) ==
    IF \E i \in DOMAIN users : users[i].session_id = session_id
    THEN users[Min({i \in DOMAIN users : users[i].session_id = session_id})].id
    ELSE None

\* What Auth.get_user_from_session_id(session_id) returns: the id of the user
\* it returns, or None.
UserFromSessionId(session_id) ==
    IF session_id = None
    THEN None
    ELSE IF FindUserBy("session_id", session_id).exc = "NoResultFound"
    THEN None
    ELSE users[FindUserBy("session_id", session_id).row].id

\* Auth.get_user_from_session_id(session_id)
GetUserFromSessionId(session_id) ==
    /\ ret' = IF UserFromSessionId(session_id) = None
              THEN Returned("get_user_from_session_id", session_id, "None", None)
              ELSE Returned("get_user_from_session_id", session_id, "User",
                       UserFromSessionId(session_id))
    /\ UNCHANGED <<users, nextUuid, loggedOut, consumed, gateVars, callerVars>>

\* The session ids held by the rows whose id is user_id.
SessionIdsOf(user_id) ==
    {users[i].session_id : i \in {j \in DOMAIN users : users[j].id = user_id}}
        \ {None}

\* Mutant of DestroySession: the update clears reset_token, not session_id.
DestroySessionWrongColumn(user_id) ==
    /\ IF user_id = None
       THEN /\ ret' = Returned("destroy_session", user_id, "None", None)
            /\ UNCHANGED <<users, loggedOut>>
       ELSE LET updated == UpdateUser(user_id, [reset_token |-> None])
            IN  /\ users' = updated.rows
                /\ IF updated.exc = "None"
                   THEN /\ ret' = Returned("destroy_session", user_id, "None", None)
                        /\ loggedOut' = loggedOut \cup SessionIdsOf(user_id)
                   ELSE /\ ret' = Raised("destroy_session", user_id, updated.exc)
                        /\ loggedOut' = loggedOut
    /\ UNCHANGED <<nextUuid, consumed, gateVars, callerVars>>

\* Mutant of DestroySession: logging out an identity that has no session
\* raises ValueError.
DestroySessionRequiresSession(user_id) ==
    /\ IF user_id = None
       THEN /\ ret' = Returned("destroy_session", user_id, "None", None)
            /\ UNCHANGED <<users, loggedOut>>
       ELSE IF SessionIdsOf(user_id) = {}
       THEN /\ ret' = Raised("destroy_session", user_id, "ValueError")
            /\ UNCHANGED <<users, loggedOut>>
       ELSE LET updated == UpdateUser(user_id, [session_id |-> None])
            IN  /\ users' = updated.rows
                /\ ret' = Returned("destroy_session", user_id, "None", None)
                /\ loggedOut' = loggedOut \cup SessionIdsOf(user_id)
    /\ UNCHANGED <<nextUuid, consumed, gateVars, callerVars>>

\* Mutant of DestroySession: the user's row is deleted.
DestroySessionDeletesUser(user_id) ==
    /\ IF user_id = None
       THEN /\ ret' = Returned("destroy_session", user_id, "None", None)
            /\ UNCHANGED <<users, loggedOut>>
       ELSE /\ users' = SelectSeq(users, LAMBDA row : row.id # user_id)
            /\ IF FindUserBy("id", user_id).exc = "None"
               THEN /\ ret' = Returned("destroy_session", user_id, "None", None)
                    /\ loggedOut' = loggedOut \cup SessionIdsOf(user_id)
               ELSE /\ ret' = Raised("destroy_session", user_id,
                                     FindUserBy("id", user_id).exc)
                    /\ loggedOut' = loggedOut
    /\ UNCHANGED <<nextUuid, consumed, gateVars, callerVars>>

\* Auth.destroy_session(user_id)
DestroySession(user_id) ==
    /\ IF user_id = None
       THEN /\ ret' = Returned("destroy_session", user_id, "None", None)
            /\ UNCHANGED <<users, loggedOut>>
       ELSE LET updated == UpdateUser(user_id, [session_id |-> None])
            IN  /\ users' = updated.rows
                /\ IF updated.exc = "None"
                   THEN /\ ret' = Returned("destroy_session", user_id, "None", None)
                        /\ loggedOut' = loggedOut \cup SessionIdsOf(user_id)
                   ELSE /\ ret' = Raised("destroy_session", user_id, updated.exc)
                        /\ loggedOut' = loggedOut
    /\ UNCHANGED <<nextUuid, consumed, gateVars, callerVars>>

\* Mutant of GetResetPasswordToken: a pending reset token is kept; the new
\* one is returned and not stored.
GetResetPasswordTokenKeepsPending(email) ==
    /\ IF FindUserBy("email", email).exc = "NoResultFound"
       THEN /\ ret' = Raised("get_reset_password_token", email, "ValueError")
            /\ UNCHANGED <<users, nextUuid>>
       ELSE /\ nextUuid <= MaxUuid
            /\ LET user == users[FindUserBy("email", email).row]
                   reset_token == GenerateUuid
                   updated == IF user.reset_token = None
                              THEN UpdateUser(user.id, [reset_token |-> reset_token])
                              ELSE [exc |-> "None", rows |-> users]
               IN  /\ users' = updated.rows
                   /\ ret' = Returned("get_reset_password_token", email, "str", reset_token)
            /\ nextUuid' = nextUuid + 1
    /\ UNCHANGED <<loggedOut, consumed, gateVars, callerVars>>

\* Auth.get_reset_password_token(email)
GetResetPasswordToken(email) ==
    /\ IF FindUserBy("email", email).exc = "NoResultFound"
       THEN /\ ret' = Raised("get_reset_password_token", email, "ValueError")
            /\ UNCHANGED <<users, nextUuid>>
       ELSE /\ nextUuid <= MaxUuid
            /\ LET user == users[FindUserBy("email", email).row]
                   reset_token == GenerateUuid
                   updated == UpdateUser(user.id, [reset_token |-> reset_token])
               IN  /\ users' = updated.rows
                   /\ ret' = IF updated.exc = "None"
                             THEN Returned("get_reset_password_token", email, "str", reset_token)
                             ELSE Raised("get_reset_password_token", email, updated.exc)
            /\ nextUuid' = nextUuid + 1
    /\ UNCHANGED <<loggedOut, consumed, gateVars, callerVars>>

\* Mutant of UpdatePassword: the update clears the token and leaves the hash.
UpdatePasswordClearsOnly(reset_token, password, salt) ==
    /\ IF FindUserBy("reset_token", reset_token).exc = "NoResultFound"
       THEN /\ ret' = Raised("update_password", reset_token, "ValueError")
            /\ UNCHANGED <<users, consumed>>
       ELSE LET user == users[FindUserBy("reset_token", reset_token).row]
                updated == UpdateUser(user.id, [reset_token |-> None])
            IN  /\ users' = updated.rows
                /\ ret' = Returned("update_password", reset_token, "None", None)
                /\ consumed' = consumed \cup {reset_token}
    /\ UNCHANGED <<nextUuid, loggedOut, gateVars, callerVars>>

\* Mutant of UpdatePassword: the update stores the hash and leaves the token.
UpdatePasswordKeepsToken(reset_token, password, salt) ==
    /\ IF FindUserBy("reset_token", reset_token).exc = "NoResultFound"
       THEN /\ ret' = Raised("update_password", reset_token, "ValueError")
            /\ UNCHANGED <<users, consumed>>
       ELSE LET user == users[FindUserBy("reset_token", reset_token).row]
                updated == UpdateUser(user.id,
                               [hashed_password |-> HashPw(password, salt)])
            IN  /\ users' = updated.rows
                /\ ret' = Returned("update_password", reset_token, "None", None)
                /\ consumed' = consumed \cup {reset_token}
    /\ UNCHANGED <<nextUuid, loggedOut, gateVars, callerVars>>

\* Mutant of UpdatePassword: the update also ends the user's session.
UpdatePasswordEndsSession(reset_token, password, salt) ==
    /\ IF FindUserBy("reset_token", reset_token).exc = "NoResultFound"
       THEN /\ ret' = Raised("update_password", reset_token, "ValueError")
            /\ UNCHANGED <<users, consumed>>
       ELSE LET user == users[FindUserBy("reset_token", reset_token).row]
                updated == UpdateUser(user.id,
                               [hashed_password |-> HashPw(password, salt),
                                reset_token |-> None, session_id |-> None])
            IN  /\ users' = updated.rows
                /\ ret' = Returned("update_password", reset_token, "None", None)
                /\ consumed' = consumed \cup {reset_token}
    /\ UNCHANGED <<nextUuid, loggedOut, gateVars, callerVars>>

\* Auth.update_password(reset_token, password); salt is what gensalt() draws.
UpdatePassword(reset_token, password, salt) ==
    /\ IF FindUserBy("reset_token", reset_token).exc = "NoResultFound"
       THEN /\ ret' = Raised("update_password", reset_token, "ValueError")
            /\ UNCHANGED <<users, consumed>>
       ELSE LET user == users[FindUserBy("reset_token", reset_token).row]
                updated == UpdateUser(user.id,
                               [hashed_password |-> HashPw(password, salt),
                                reset_token |-> None])
            IN  /\ users' = updated.rows
                /\ IF updated.exc = "None"
                   THEN /\ ret' = Returned("update_password", reset_token,
                                       "None", None)
                        /\ consumed' = consumed \cup {reset_token}
                   ELSE /\ ret' = Raised("update_password", reset_token,
                                     updated.exc)
                        /\ consumed' = consumed
    /\ UNCHANGED <<nextUuid, loggedOut, gateVars, callerVars>>

(* ------------------- the service's specification ----------------------- *)

\* Auth(): DB() drops and recreates the table, so the store starts empty.  The
\* gate does not use the service's variables; they keep these values.
ServiceIdle ==
    /\ users = <<>>
    /\ nextUuid = 1
    /\ ret = Returned("__init__", None, "None", None)
    /\ loggedOut = {}
    /\ consumed = {}

\* The gate's variables are not used by the service; they keep these values.
GateIdle ==
    /\ AUTH_TYPE = "<None>"
    /\ user_id_by_session_id = <<>>
    /\ issued = {}
    /\ request = <<>>
    /\ response = <<>>
    /\ authCall = <<>>

\* The callers that run Auth methods at the same time.
Callers == {"t1", "t2", "t3"}

\* A caller that is in no call.
IdleCall == [pc |-> "idle", op |-> "", email |-> "", password |-> "",
             out |-> "", user |-> None]

\* No caller is in a call (the methods run one at a time, each to its end)
\* and no login has been verified.
CallersIdle ==
    /\ calls = [c \in Callers |-> IdleCall]
    /\ verified = {}

Init ==
    /\ ServiceIdle
    /\ GateIdle
    /\ CallersIdle

Next ==
    \/ \E email \in Emails, password \in Passwords, salt \in Salts,
          commits \in BOOLEAN :
           RegisterUser(email, password, salt, commits)
    \/ \E email \in Emails, password \in Passwords : ValidLogin(email, password)
    \/ \E email \in Emails : CreateSession(email)
    \/ \E session_id \in Tokens : GetUserFromSessionId(session_id)
    \/ \E user_id \in UserIds : DestroySession(user_id)
    \/ \E email \in Emails : GetResetPasswordToken(email)
    \/ \E reset_token \in Tokens, password \in Passwords, salt \in Salts :
           UpdatePassword(reset_token, password, salt)

Spec == Init /\ [][Next]_vars

(* ------------- the service with its verifications recorded ------------- *)

\* Mutant of ValidLoginRecorded: a valid_login that, when the password
\* verifies, also stores a session id for the user.
ValidLoginRecordedPersists(email, password) ==
    /\ ret' = Returned("valid_login", email, "bool", ValidLoginResult(email, password))
    /\ verified' = IF ValidLoginResult(email, password)
                   THEN verified \cup {email}
                   ELSE verified
    /\ users' = IF ValidLoginResult(email, password)
                THEN UpdatedRows(users[FindUserBy("email", email).row].id,
                                 [session_id |-> MaxUuid + 1])
                ELSE users
    /\ UNCHANGED <<nextUuid, loggedOut, consumed, gateVars, calls>>

\* Auth.valid_login(email, password), with the history of the emails it has
\* returned True for.
ValidLoginRecorded(email, password) ==
    /\ ret' = Returned("valid_login", email, "bool", ValidLoginResult(email, password))
    /\ verified' = IF ValidLoginResult(email, password)
                   THEN verified \cup {email}
                   ELSE verified
    /\ UNCHANGED <<users, nextUuid, loggedOut, consumed, gateVars, calls>>

\* Every method of Auth, called in any order with any arguments.
NextLogin ==
    \/ \E email \in Emails, password \in Passwords, salt \in Salts,
          commits \in BOOLEAN :
           RegisterUser(email, password, salt, commits)
    \/ \E email \in Emails, password \in Passwords :
           ValidLoginRecorded(email, password)
    \/ \E email \in Emails : CreateSession(email)
    \/ \E session_id \in Tokens : GetUserFromSessionId(session_id)
    \/ \E user_id \in UserIds : DestroySession(user_id)
    \/ \E email \in Emails : GetResetPasswordToken(email)
    \/ \E reset_token \in Tokens, password \in Passwords, salt \in Salts :
           UpdatePassword(reset_token, password, salt)

SpecLogin == Init /\ [][NextLogin]_vars

(* ------------- the service given passwords of any length --------------- *)

\* The passwords the methods are called with: one of at most 72 bytes and two
\* longer ones that agree in their first 72 bytes.
PasswordArgs == {"pw1"} \cup LongPasswords

\* register_user(email, password) on a bcrypt that rejects a password of more
\* than 72 bytes: hashpw raises ValueError once the lookup has found no row.
RegisterUserTooLong(email, password) ==
    /\ password \in LongPasswords
    /\ FindUserBy("email", email).exc = "NoResultFound"
    /\ ret' = Raised("register_user", email, "ValueError")
    /\ UNCHANGED <<users, nextUuid, loggedOut, consumed, gateVars, callerVars>>

\* valid_login(email, password) on such a bcrypt: checkpw raises ValueError
\* once the lookup has found the row.
ValidLoginTooLong(email, password) ==
    /\ password \in LongPasswords
    /\ FindUserBy("email", email).exc = "None"
    /\ ret' = Raised("valid_login", email, "ValueError")
    /\ UNCHANGED <<users, nextUuid, loggedOut, consumed, gateVars, callerVars>>

\* update_password(reset_token, password) on such a bcrypt: hashpw raises
\* ValueError once the lookup has found the row, before any update.
UpdatePasswordTooLong(reset_token, password) ==
    /\ password \in LongPasswords
    /\ FindUserBy("reset_token", reset_token).exc = "None"
    /\ ret' = Raised("update_password", reset_token, "ValueError")
    /\ UNCHANGED <<users, nextUuid, loggedOut, consumed, gateVars, callerVars>>

\* Every method of Auth, on a bcrypt that hashes the first 72 bytes of a
\* longer password (the methods as above) and on one that rejects it.
NextPasswords ==
    \/ \E email \in Emails, password \in PasswordArgs, salt \in Salts,
          commits \in BOOLEAN :
           RegisterUser(email, password, salt, commits)
    \/ \E email \in Emails, password \in PasswordArgs :
           RegisterUserTooLong(email, password)
    \/ \E email \in Emails, password \in PasswordArgs :
           ValidLogin(email, password)
    \/ \E email \in Emails, password \in PasswordArgs :
           ValidLoginTooLong(email, password)
    \/ \E email \in Emails : CreateSession(email)
    \/ \E session_id \in Tokens : GetUserFromSessionId(session_id)
    \/ \E user_id \in UserIds : DestroySession(user_id)
    \/ \E email \in Emails : GetResetPasswordToken(email)
    \/ \E reset_token \in Tokens, password \in PasswordArgs, salt \in Salts :
           UpdatePassword(reset_token, password, salt)
    \/ \E reset_token \in Tokens, password \in PasswordArgs :
           UpdatePasswordTooLong(reset_token, password)

SpecPasswords == Init /\ [][NextPasswords]_vars

(* ------------------- the service across restarts ----------------------- *)

\* Auth() in a new process over the same a.db: DB.__init__ creates the
\* engine, drops every table of Base.metadata and creates them again, so the
\* table is empty.  uuid4() goes on returning values it has not returned.
AuthInit ==
    /\ users' = <<>>
    /\ ret' = Returned("__init__", None, "None", None)
    /\ UNCHANGED <<nextUuid, loggedOut, consumed, gateVars, callerVars>>

\* Every method of Auth, and the construction of a new Auth at any time.
NextRestart ==
    \/ AuthInit
    \/ \E email \in Emails, password \in Passwords, salt \in Salts,
          commits \in BOOLEAN :
           RegisterUser(email, password, salt, commits)
    \/ \E email \in Emails, password \in Passwords : ValidLogin(email, password)
    \/ \E email \in Emails : CreateSession(email)
    \/ \E session_id \in Tokens : GetUserFromSessionId(session_id)
    \/ \E user_id \in UserIds : DestroySession(user_id)
    \/ \E email \in Emails : GetResetPasswordToken(email)
    \/ \E reset_token \in Tokens, password \in Passwords, salt \in Salts :
           UpdatePassword(reset_token, password, salt)

SpecRestart == Init /\ [][NextRestart]_vars

(* ------------ Auth.register_user run by concurrent callers ------------- *)

\* A call of caller c that has ended with outcome out ("User", "None" or the
\* exception raised); user is the id of the User returned.
Ended(c, out, user) ==
    [calls[c] EXCEPT !.pc = "done", !.out = out, !.user = user]

\* Auth.register_user, lines 70-72: caller c enters register_user(email,
\* password) and runs find_user_by(email=email).  When a row is found the call
\* ends with ValueError; else NoResultFound is caught and the caller stands
\* before add_user.  Nothing in auth.py or db.py holds a lock in between.
RegisterUserFind(c, email, password) ==
    /\ calls[c].pc = "idle"
    /\ calls' =
          [calls EXCEPT ![c] =
              IF FindUserBy("email", email).exc = "NoResultFound"
              THEN [pc |-> "add_user", op |-> "register_user", email |-> email,
                    password |-> password, out |-> "", user |-> None]
              ELSE [pc |-> "done", op |-> "register_user", email |-> email,
                    password |-> password, out |-> "ValueError", user |-> None]]
    /\ UNCHANGED <<svcVars, gateVars, verified>>

\* Auth.register_user, line 73: caller c hashes the password and runs add_user,
\* which inserts whatever the table holds by now (user.py declares no unique
\* constraint on email), and the call returns what add_user returns.
RegisterUserAdd(c, salt, commits) ==
    /\ calls[c].pc = "add_user"
    /\ LET added == AddUser(calls[c].email,
                            HashPw(calls[c].password, salt), commits)
       IN  /\ users' = added.rows
           /\ calls' = [calls EXCEPT ![c] =
                           IF added.user = None
                           THEN Ended(c, "None", None)
                           ELSE Ended(c, "User", added.user)]
    /\ UNCHANGED <<nextUuid, ret, loggedOut, consumed, gateVars, verified>>

NextRegister ==
    \/ \E c \in Callers, email \in Emails, password \in Passwords :
           RegisterUserFind(c, email, password)
    \/ \E c \in Callers, salt \in Salts, commits \in BOOLEAN :
           RegisterUserAdd(c, salt, commits)

\* The callers share one Auth object, as the handlers of a threaded server
\* share the module's AUTH; each caller makes one call.
SpecRegister == Init /\ [][NextRegister]_vars

(* ------- Auth's session and reset methods run by concurrent callers ----- *)

\* The table after register_user("a@x.com", "pw1") and
\* register_user("b@x.com", "pw2") have returned.
RegisteredRows ==
    <<NewUser(1, "a@x.com", HashPw("pw1", "salt1")),
      NewUser(2, "b@x.com", HashPw("pw2", "salt2"))>>

\* A call of caller c: the method, its first argument, how far it has run, the
\* id it passes to update_user with the keyword arguments, its outcome ("str",
\* "None" or the exception raised), and the callers that were inside a call
\* when its UPDATE ran.
Call(op, arg, pc, user, kwargs, out) ==
    [op |-> op, arg |-> arg, pc |-> pc, user |-> user, kwargs |-> kwargs,
     out |-> out, during |-> {}]

\* The callers that are inside a call.
InFlight == {c \in Callers : calls[c].pc \notin {"idle", "done"}}

\* Auth.create_session, lines 115-120: caller c enters create_session(email),
\* runs find_user_by(email=email) and, when a row is found, draws the session
\* id; it then stands before update_user(user.id, session_id=session_id).
CreateSessionFind(c, email) ==
    /\ calls[c].pc = "idle"
    /\ IF FindUserBy("email", email).exc = "NoResultFound"
       THEN /\ calls' = [calls EXCEPT ![c] =
                   Call("create_session", email, "done", None, <<>>, "None")]
            /\ UNCHANGED nextUuid
       ELSE /\ calls' = [calls EXCEPT ![c] =
                   Call("create_session", email, "update_user",
                        users[FindUserBy("email", email).row].id,
                        [session_id |-> GenerateUuid], "")]
            /\ nextUuid' = nextUuid + 1
    /\ UNCHANGED <<users, ret, loggedOut, consumed, gateVars, verified>>

\* Auth.destroy_session, lines 154-156: caller c enters
\* destroy_session(user_id); unless user_id is None it stands before
\* update_user(user_id, session_id=None).
DestroySessionEnter(c, user_id) ==
    /\ calls[c].pc = "idle"
    /\ calls' = [calls EXCEPT ![c] =
          IF user_id = None
          THEN Call("destroy_session", user_id, "done", None, <<>>, "None")
          ELSE Call("destroy_session", user_id, "update_user", user_id,
                    [session_id |-> None], "")]
    /\ UNCHANGED <<svcVars, gateVars, verified>>

\* Auth.update_password, lines 200-207: caller c enters
\* update_password(reset_token, password), runs
\* find_user_by(reset_token=reset_token) and, when a row is found, hashes the
\* password; it then stands before update_user(user.id, hashed_password=...,
\* reset_token=None).
UpdatePasswordFind(c, reset_token, password, salt) ==
    /\ calls[c].pc = "idle"
    /\ calls' = [calls EXCEPT ![c] =
          IF FindUserBy("reset_token", reset_token).exc = "NoResultFound"
          THEN Call("update_password", reset_token, "done", None, <<>>,
                    "ValueError")
          ELSE Call("update_password", reset_token, "update_user",
                    users[FindUserBy("reset_token", reset_token).row].id,
                    [hashed_password |-> HashPw(password, salt),
                     reset_token |-> None], "")]
    /\ UNCHANGED <<svcVars, gateVars, verified>>

\* DB.update_user, lines 123-125: find_user_by(id=user_id); NoResultFound is
\* caught neither here nor in the method of Auth, so the call ends with it.
UpdateUserFind(c) ==
    /\ calls[c].pc = "update_user"
    /\ calls' = [calls EXCEPT ![c] =
          IF FindUserBy("id", calls[c].user).exc = "None"
          THEN [calls[c] EXCEPT !.pc = "update"]
          ELSE [calls[c] EXCEPT !.pc = "done", !.out = "NoResultFound"]]
    /\ UNCHANGED <<svcVars, gateVars, verified>>

\* Mutant of UpdateUserCommit: the UPDATE leaves a column that holds a value
\* as it is when the new value is not None.
UpdateUserCommitKeepsSet(c) ==
    /\ calls[c].pc = "update"
    /\ users' = [i \in DOMAIN users |->
          IF users[i].id = calls[c].user
          THEN [k \in DOMAIN users[i] |->
                   IF /\ k \in DOMAIN calls[c].kwargs
                      /\ (users[i][k] = None \/ calls[c].kwargs[k] = None)
                   THEN calls[c].kwargs[k]
                   ELSE users[i][k]]
          ELSE users[i]]
    /\ calls' = [calls EXCEPT ![c] =
          [calls[c] EXCEPT
              !.pc = "done",
              !.out = IF calls[c].op = "create_session" THEN "str" ELSE "None",
              !.during = InFlight \ {c}]]
    /\ UNCHANGED <<nextUuid, ret, loggedOut, consumed, gateVars, verified>>

\* DB.update_user, lines 126-135: every keyword names a column, so no
\* ValueError; one UPDATE statement sets the given columns of the rows whose
\* id is user_id and is committed, and the method of Auth returns
\* (create_session the session id it drew, the others None).
UpdateUserCommit(c) ==
    /\ calls[c].pc = "update"
    /\ users' = UpdatedRows(calls[c].user, calls[c].kwargs)
    /\ calls' = [calls EXCEPT ![c] =
          [calls[c] EXCEPT
              !.pc = "done",
              !.out = IF calls[c].op = "create_session" THEN "str" ELSE "None",
              !.during = InFlight \ {c}]]
    /\ UNCHANGED <<nextUuid, ret, loggedOut, consumed, gateVars, verified>>

\* The service once both emails are registered, and then either nothing more,
\* or create_session("a@x.com") has returned session id 1, or
\* get_reset_password_token("a@x.com") has returned reset token 1.
InitCalls ==
    /\ \E column \in {"id", "session_id", "reset_token"} :
          /\ users = IF column = "id"
                     THEN RegisteredRows
                     ELSE [RegisteredRows EXCEPT ![1][column] = 1]
          /\ nextUuid = IF column = "id" THEN 1 ELSE 2
          /\ ret = IF column = "id"
                   THEN Returned("register_user", "b@x.com", "User", 2)
                   ELSE IF column = "session_id"
                   THEN Returned("create_session", "a@x.com", "str", 1)
                   ELSE Returned("get_reset_password_token", "a@x.com", "str", 1)
    /\ loggedOut = {}
    /\ consumed = {}
    /\ GateIdle
    /\ CallersIdle

NextCalls ==
    \/ \E c \in Callers, email \in Emails : CreateSessionFind(c, email)
    \/ \E c \in Callers, user_id \in UserIds : DestroySessionEnter(c, user_id)
    \/ \E c \in Callers, reset_token \in Tokens, password \in Passwords,
          salt \in Salts :
           UpdatePasswordFind(c, reset_token, password, salt)
    \/ \E c \in Callers : UpdateUserFind(c)
    \/ \E c \in Callers : UpdateUserCommit(c)

\* The callers share one Auth object; each caller makes one call.
SpecCalls == InitCalls /\ [][NextCalls]_vars

(* ---------- 0x02-Session_authentication: the request gate ------------- *)

\* None where a str is expected (a header, a cookie, a user id, a session id).
NoneStr == "<None>"

\* None where a path is expected, and where a list of paths is.  A path is
\* the sequence of its characters.
NonePath == <<"<None>">>

NoneList == <<NonePath>>

\* Python's truth value of an optional str: None and "" are false.
Truthy(s) == s # NoneStr /\ s # ""

\* app.py: the list before_request passes to require_auth.
excluded_paths ==
    << <<"/", "a", "p", "i", "/", "v", "1", "/", "s", "t", "a", "t", "u", "s", "/">>,
       <<"/", "a", "p", "i", "/", "v", "1", "/", "u", "n", "a", "u", "t", "h", "o", "r", "i", "z", "e", "d", "/">>,
       <<"/", "a", "p", "i", "/", "v", "1", "/", "f", "o", "r", "b", "i", "d", "d", "e", "n", "/">>,
       <<"/", "a", "p", "i", "/", "v", "1", "/", "a", "u", "t", "h", "_", "s", "e", "s", "s", "i", "o", "n", "/", "l", "o", "g", "i", "n", "/">> >>

\* str.endswith("*")
EndsWithStar(i) == Len(i) > 0 /\ i[Len(i)] = "*"

\* path.startswith(prefix)
StartsWith(path, prefix) ==
    Len(prefix) <= Len(path) /\ SubSeq(path, 1, Len(prefix)) = prefix

\* Mutant of WithSlash: the path is compared as given.
WithSlashLeftOut(path) == path

\* require_auth's path after "if path[-1] != '/': path += '/'".
WithSlash(path) == IF path[Len(path)] # "/" THEN Append(path, "/") ELSE path

\* Mutant of RequireAuth: the entries that end in "*" are not treated as
\* prefixes.
RequireAuthNoWildcard(path, excluded) ==
    IF path = NonePath \/ excluded = NoneList \/ Len(excluded) = 0
    THEN TRUE
    ELSE IF \E k \in DOMAIN excluded : excluded[k] = WithSlash(path)
    THEN FALSE
    ELSE TRUE

\* Auth.require_auth(path, excluded_paths), for a path of at least one
\* character (path[-1] raises IndexError on "").
RequireAuth(path, excluded) ==
    IF path = NonePath \/ excluded = NoneList \/ Len(excluded) = 0
    THEN TRUE
    ELSE IF \E k \in DOMAIN excluded :
                /\ EndsWithStar(excluded[k])
                /\ StartsWith(WithSlash(path),
                              SubSeq(excluded[k], 1, Len(excluded[k]) - 1))
    THEN FALSE
    ELSE IF \E k \in DOMAIN excluded : excluded[k] = WithSlash(path)
    THEN FALSE
    ELSE TRUE

\* Auth.authorization_header(request): request.headers.get("Authorization")
AuthorizationHeader(req) == req.authorization

\* Auth.session_cookie(request): request.cookies.get(getenv("SESSION_NAME"));
\* req.cookie is the value of the cookie of that name.
SessionCookie(req) == req.cookie

\* models.user.User: the stored users (id, email, password), and the lookups
\* the authenticators make.
StoredUsers == {[id |-> "u1", email |-> "a@x.com", password |-> "pw1"]}

\* User.get(user_id): the id of the user found, or None.
UserGet(user_id) ==
    IF \E u \in StoredUsers : u.id = user_id THEN user_id ELSE NoneStr

\* BasicAuth.extract_base64_authorization_header on the sample headers: the
\* text after "Basic " when the stripped header is "Basic " and more.
ExtractBase64AuthorizationHeader(authorization_header) ==
    CASE authorization_header = "Basic YUB4LmNvbTpwdzE=" -> "YUB4LmNvbTpwdzE="
      [] authorization_header = "Basic YUB4LmNvbTpub3Bl" -> "YUB4LmNvbTpub3Bl"
      [] OTHER -> NoneStr

\* BasicAuth.decode_base64_authorization_header on the sample tokens.
DecodeBase64AuthorizationHeader(base64_authorization_header) ==
    CASE base64_authorization_header = "YUB4LmNvbTpwdzE=" -> "a@x.com:pw1"
      [] base64_authorization_header = "YUB4LmNvbTpub3Bl" -> "a@x.com:nope"
      [] OTHER -> NoneStr

\* BasicAuth.extract_user_credentials on the sample decoded strings.
ExtractUserCredentials(decoded) ==
    CASE decoded = "a@x.com:pw1" -> [email |-> "a@x.com", password |-> "pw1"]
      [] decoded = "a@x.com:nope" -> [email |-> "a@x.com", password |-> "nope"]
      [] OTHER -> [email |-> NoneStr, password |-> NoneStr]

\* BasicAuth.user_object_from_credentials(user_email, user_pwd)
UserObjectFromCredentials(user_email, user_pwd) ==
    IF user_email = NoneStr \/ user_pwd = NoneStr
    THEN NoneStr
    ELSE IF \E u \in StoredUsers : u.email = user_email /\ u.password = user_pwd
    THEN (CHOOSE u \in StoredUsers :
              u.email = user_email /\ u.password = user_pwd).id
    ELSE NoneStr

\* BasicAuth.current_user(request)
BasicAuthCurrentUser(req) ==
    LET credentials ==
            ExtractUserCredentials(
                DecodeBase64AuthorizationHeader(
                    ExtractBase64AuthorizationHeader(AuthorizationHeader(req))))
    IN  UserObjectFromCredentials(credentials.email, credentials.password)

\* SessionAuth.user_id_for_session_id(session_id)
UserIdForSessionId(session_id) ==
    IF session_id = NoneStr
    THEN NoneStr
    ELSE IF session_id \in DOMAIN user_id_by_session_id
    THEN user_id_by_session_id[session_id]
    ELSE NoneStr

\* SessionAuth.current_user(request)
SessionAuthCurrentUser(req) ==
    IF SessionCookie(req) = NoneStr
    THEN NoneStr
    ELSE UserGet(UserIdForSessionId(SessionCookie(req)))

\* Mutant of CurrentUser: every authenticator tries the Authorization header
\* and then the session cookie.
CurrentUserHeaderThenCookie(req) ==
    IF BasicAuthCurrentUser(req) # NoneStr
    THEN BasicAuthCurrentUser(req)
    ELSE SessionAuthCurrentUser(req)

\* auth.current_user(request) of the authenticator AUTH_TYPE selects; the
\* base Auth.current_user returns None.
CurrentUser(req) ==
    CASE AUTH_TYPE = "basic_auth" -> BasicAuthCurrentUser(req)
      [] AUTH_TYPE = "session_auth" -> SessionAuthCurrentUser(req)
      [] OTHER -> NoneStr

\* What the gate or SessionAuth answered: status is 0 when before_request
\* returns and the request goes on to its view, else the status it aborts
\* with; current_user is request.current_user (None when not set);
\* session_id and destroyed are what create_session and destroy_session
\* return.
Response(op, status, current_user, session_id, destroyed) ==
    [op |-> op, status |-> status, current_user |-> current_user,
     session_id |-> session_id, destroyed |-> destroyed]

\* app.py: whether AUTH_TYPE selects an authenticator (auth is not None).
AuthSelected == AUTH_TYPE \in {"auth", "basic_auth", "session_auth"}

\* Mutant of BeforeRequest: 401 when either the header or the cookie is
\* missing ("or" for "and").
BeforeRequestEitherMissing(req) ==
    /\ request' = req
    /\ response' =
          IF ~AuthSelected
          THEN Response("before_request", 0, NoneStr, NoneStr, FALSE)
          ELSE IF ~RequireAuth(req.path, excluded_paths)
          THEN Response("before_request", 0, NoneStr, NoneStr, FALSE)
          ELSE IF ~Truthy(AuthorizationHeader(req)) \/ ~Truthy(SessionCookie(req))
          THEN Response("before_request", 401, NoneStr, NoneStr, FALSE)
          ELSE IF CurrentUser(req) = NoneStr
          THEN Response("before_request", 403, NoneStr, NoneStr, FALSE)
          ELSE Response("before_request", 0, CurrentUser(req), NoneStr, FALSE)
    /\ UNCHANGED <<AUTH_TYPE, user_id_by_session_id, issued, svcVars, callerVars, authCall>>

\* app.py: before_request() for request req
BeforeRequest(req) ==
    /\ request' = req
    /\ response' =
          IF ~AuthSelected
          THEN Response("before_request", 0, NoneStr, NoneStr, FALSE)
          ELSE IF ~RequireAuth(req.path, excluded_paths)
          THEN Response("before_request", 0, NoneStr, NoneStr, FALSE)
          ELSE IF ~Truthy(AuthorizationHeader(req)) /\ ~Truthy(SessionCookie(req))
          THEN Response("before_request", 401, NoneStr, NoneStr, FALSE)
          ELSE IF CurrentUser(req) = NoneStr
          THEN Response("before_request", 403, NoneStr, NoneStr, FALSE)
          ELSE Response("before_request", 0, CurrentUser(req), NoneStr, FALSE)
    /\ UNCHANGED <<AUTH_TYPE, user_id_by_session_id, issued, svcVars, callerVars, authCall>>

\* str(uuid4()) in SessionAuth.create_session: a value not issued before.
SessionIdPool == <<"sid1", "sid2", "sid3", "sid4">>

Uuid4 == SessionIdPool[Cardinality(issued) + 1]

\* SessionAuth.create_session(user_id)
SessionAuthCreateSession(user_id) ==
    /\ AUTH_TYPE = "session_auth"
    /\ IF user_id = NoneStr
       THEN /\ response' = Response("create_session", 0, NoneStr, NoneStr, FALSE)
            /\ UNCHANGED <<user_id_by_session_id, issued>>
       ELSE /\ Cardinality(issued) < MaxSessions
            /\ Cardinality(issued) < Len(SessionIdPool)
            /\ user_id_by_session_id' =
                  [s \in DOMAIN user_id_by_session_id \cup {Uuid4} |->
                      IF s = Uuid4 THEN user_id ELSE user_id_by_session_id[s]]
            /\ issued' = issued \cup {Uuid4}
            /\ response' = Response("create_session", 0, NoneStr, Uuid4, FALSE)
    /\ request' = [path |-> NonePath, authorization |-> NoneStr,
                   cookie |-> NoneStr, user_id |-> user_id]
    /\ UNCHANGED <<AUTH_TYPE, svcVars, callerVars, authCall>>

\* Mutant of SessionAuthDestroySession: every session of the user is deleted.
SessionAuthDestroySessionOfUser(req) ==
    /\ AUTH_TYPE = "session_auth"
    /\ request' = req
    /\ IF SessionCookie(req) = NoneStr
       THEN /\ response' = Response("destroy_session", 0, NoneStr, NoneStr, FALSE)
            /\ UNCHANGED user_id_by_session_id
       ELSE IF ~Truthy(UserIdForSessionId(SessionCookie(req)))
       THEN /\ response' = Response("destroy_session", 0, NoneStr, NoneStr, FALSE)
            /\ UNCHANGED user_id_by_session_id
       ELSE /\ user_id_by_session_id' =
                  [s \in {x \in DOMAIN user_id_by_session_id :
                             user_id_by_session_id[x]
                                 # UserIdForSessionId(SessionCookie(req))} |->
                      user_id_by_session_id[s]]
            /\ response' = Response("destroy_session", 0, NoneStr, NoneStr, TRUE)
    /\ UNCHANGED <<AUTH_TYPE, issued, svcVars, callerVars, authCall>>

\* SessionAuth.destroy_session(request)
SessionAuthDestroySession(req) ==
    /\ AUTH_TYPE = "session_auth"
    /\ request' = req
    /\ IF SessionCookie(req) = NoneStr
       THEN /\ response' = Response("destroy_session", 0, NoneStr, NoneStr, FALSE)
            /\ UNCHANGED user_id_by_session_id
       ELSE IF ~Truthy(UserIdForSessionId(SessionCookie(req)))
       THEN /\ response' = Response("destroy_session", 0, NoneStr, NoneStr, FALSE)
            /\ UNCHANGED user_id_by_session_id
       ELSE /\ user_id_by_session_id' =
                  [s \in DOMAIN user_id_by_session_id \ {SessionCookie(req)} |->
                      user_id_by_session_id[s]]
            /\ response' = Response("destroy_session", 0, NoneStr, NoneStr, TRUE)
    /\ UNCHANGED <<AUTH_TYPE, issued, svcVars, callerVars, authCall>>

(* --------------------- the gate's specification ------------------------ *)

\* The values AUTH_TYPE is compared with, and one that selects nothing.
AuthTypes == {"auth", "basic_auth", "session_auth", "<None>"}

\* Request paths: an excluded path with and without its trailing slash, and
\* two paths that are not excluded.
Paths ==
    { <<"/", "a", "p", "i", "/", "v", "1", "/", "s", "t", "a", "t", "u", "s", "/">>,
      <<"/", "a", "p", "i", "/", "v", "1", "/", "s", "t", "a", "t", "u", "s">>,
      <<"/", "a", "p", "i", "/", "v", "1", "/", "u", "s", "e", "r", "s">>,
      <<"/", "a", "p", "i", "/", "v", "1", "/", "u", "s", "e", "r", "s", "/", "m", "e">> }

\* Authorization headers: absent, empty, Basic credentials of a stored user,
\* Basic credentials with a wrong password, and another scheme.
Headers ==
    {NoneStr, "", "Basic YUB4LmNvbTpwdzE=", "Basic YUB4LmNvbTpub3Bl", "Bearer tok"}

\* Session cookies: absent, empty, a value never issued, and the issued ones.
Cookies == {NoneStr, "", "bogus", "sid1", "sid2"}

\* The user ids create_session is called with: None, the empty string, a
\* stored user's id and an id no stored user has.
UserIdArgs == {NoneStr, "", "u1", "u9"}

Requests ==
    [path : Paths, authorization : Headers, cookie : Cookies,
     user_id : {NoneStr}]

\* The module-level code of app.py has read AUTH_TYPE; SessionAuth's class
\* attribute user_id_by_session_id is the empty dict.
InitGate ==
    /\ AUTH_TYPE \in AuthTypes
    /\ user_id_by_session_id = <<>>
    /\ issued = {}
    /\ request = [path |-> NonePath, authorization |-> NoneStr,
                  cookie |-> NoneStr, user_id |-> NoneStr]
    /\ response = Response("__init__", 0, NoneStr, NoneStr, FALSE)
    /\ authCall = <<>>
    /\ ServiceIdle
    /\ CallersIdle

NextGate ==
    \/ \E req \in Requests : BeforeRequest(req)
    \/ \E user_id \in UserIdArgs : SessionAuthCreateSession(user_id)
    \/ \E req \in Requests : SessionAuthDestroySession(req)

SpecGate == InitGate /\ [][NextGate]_vars

(* ------------- the gate with requests handled concurrently ------------- *)

\* The requests whose before_request is followed step by step: an excluded
\* and a gated path, without and with Basic credentials of a stored user,
\* without a session cookie and with an issued one.
GateRequests ==
    [path : { <<"/", "a", "p", "i", "/", "v", "1", "/", "s", "t", "a", "t", "u", "s">>,
              <<"/", "a", "p", "i", "/", "v", "1", "/", "u", "s", "e", "r", "s">> },
     authorization : {NoneStr, "Basic YUB4LmNvbTpwdzE="},
     cookie : {NoneStr, "sid1", "sid2"},
     user_id : {NoneStr}]

\* The requests that end in SessionAuth.destroy_session: what matters of them
\* is the session cookie.
LogoutRequests ==
    [path : { <<"/", "a", "p", "i", "/", "v", "1", "/", "u", "s", "e", "r", "s">> },
     authorization : {NoneStr},
     cookie : Cookies,
     user_id : {NoneStr}]

\* The handler threads whose before_request is followed step by step.
GateCallers == {"t1", "t2"}

\* before_request of caller c: the request, where the handler stands, the
\* status it aborted with (0 when it returned), whether line 80 was reached
\* and what it assigned to request.current_user.
GateCall(req, pc, status, attached, current_user) ==
    [op |-> "before_request", req |-> req, pc |-> pc, status |-> status,
     attached |-> attached, current_user |-> current_user]

\* app.py, lines 65-79: before_request up to the test of
\* auth.current_user(request); when the test finds a user the handler stands
\* before line 80.
BeforeRequestTest(c, req) ==
    /\ calls[c].pc = "idle"
    /\ calls' = [calls EXCEPT ![c] =
          IF ~AuthSelected
          THEN GateCall(req, "done", 0, FALSE, NoneStr)
          ELSE IF ~RequireAuth(req.path, excluded_paths)
          THEN GateCall(req, "done", 0, FALSE, NoneStr)
          ELSE IF ~Truthy(AuthorizationHeader(req)) /\ ~Truthy(SessionCookie(req))
          THEN GateCall(req, "done", 401, FALSE, NoneStr)
          ELSE IF CurrentUser(req) = NoneStr
          THEN GateCall(req, "done", 403, FALSE, NoneStr)
          ELSE GateCall(req, "attach", 0, FALSE, NoneStr)]
    /\ UNCHANGED <<gateVars, svcVars, verified>>

\* app.py, line 80: request.current_user = auth.current_user(request), a
\* second call of current_user, on the session map as it is by now.
BeforeRequestAttach(c) ==
    /\ calls[c].pc = "attach"
    /\ calls' = [calls EXCEPT ![c] =
          GateCall(calls[c].req, "done", 0, TRUE, CurrentUser(calls[c].req))]
    /\ UNCHANGED <<gateVars, svcVars, verified>>

NextGateCalls ==
    \/ \E c \in GateCallers, req \in GateRequests : BeforeRequestTest(c, req)
    \/ \E c \in GateCallers : BeforeRequestAttach(c)
    \/ \E user_id \in UserIdArgs : SessionAuthCreateSession(user_id)
    \/ \E req \in LogoutRequests : SessionAuthDestroySession(req)

\* The handler threads share the module's auth object and SessionAuth's
\* class-level session map; each followed thread handles one request.
SpecGateCalls == InitGate /\ [][NextGateCalls]_vars

(* ------------------- Auth.require_auth on its own ---------------------- *)

\* Length of the longest excluded_paths list require_auth is called with.
MaxExcluded == 2

\* The paths require_auth is called with: None, the empty string, "/", and
\* paths with no, one and two trailing slashes.
PathArgs ==
    { NonePath, <<>>, <<"/">>,
      <<"/", "a">>, <<"/", "a", "/">>, <<"/", "a", "/", "/">>,
      <<"/", "a", "/", "b">>, <<"/", "a", "/", "b", "/">>,
      <<"/", "b">>, <<"/", "b", "/">> }

\* The entries of excluded_paths: exact patterns with and without a trailing
\* slash, and patterns that end in "*".
Patterns ==
    { <<"/", "a">>, <<"/", "a", "/">>, <<"/", "a", "*">>,
      <<"/", "a", "/", "*">>, <<"/", "a", "/", "b", "/">>, <<"/", "b", "/">>,
      <<"*">> }

\* The excluded_paths require_auth is called with: None, and the lists of at
\* most MaxExcluded entries.
ExcludedArgs ==
    {NoneList} \cup UNION {[1..n -> Patterns] : n \in 0..MaxExcluded}

\* What require_auth(path, excluded_paths) does: the bool it returns, or the
\* IndexError that path[-1] raises on the empty string.
RequireAuthOutcome(path, excluded) ==
    IF path # NonePath /\ excluded # NoneList /\ Len(excluded) # 0 /\ Len(path) = 0
    THEN "IndexError"
    ELSE IF RequireAuth(path, excluded) THEN "True" ELSE "False"

\* The arguments of a call that has not run yet.
InitRequireAuth ==
    /\ authCall \in [path : PathArgs, excluded_paths : ExcludedArgs,
                     outcome : {"<pending>"}]
    /\ AUTH_TYPE = "auth"
    /\ user_id_by_session_id = <<>>
    /\ issued = {}
    /\ request = <<>>
    /\ response = <<>>
    /\ ServiceIdle
    /\ CallersIdle

\* Auth().require_auth(path, excluded_paths)
RequireAuthCall ==
    /\ authCall.outcome = "<pending>"
    /\ authCall' = [authCall EXCEPT
                       !.outcome = RequireAuthOutcome(authCall.path,
                                                      authCall.excluded_paths)]
    /\ UNCHANGED <<AUTH_TYPE, user_id_by_session_id, issued, request, response,
                   svcVars, callerVars>>

NextRequireAuth == RequireAuthCall

SpecRequireAuth == InitRequireAuth /\ [][NextRequireAuth]_vars

(* --------------------- readings of the store --------------------------- *)

Registered(email) == FindUserBy("email", email).exc = "None"

\* The identity (row id) registered under email; None when there is none.
IdOf(email) ==
    IF Registered(email) THEN users[FindUserBy("email", email).row].id ELSE None

\* The identity update_password(reset_token, ...) would act on; None when it
\* would raise ValueError.
ResetTokenOwner(reset_token) ==
    IF FindUserBy("reset_token", reset_token).exc = "None"
    THEN users[FindUserBy("reset_token", reset_token).row].id
    ELSE None

\* The row of identity id.
Row(id) == users[FindUserBy("id", id).row]

(* ------------------------------ claims --------------------------------- *)

\* C1: when create_session(email) returns token t for a registered identity,
\* get_user_from_session_id(t) returns that identity in the state it leaves,
\* and a token an identity holds keeps resolving to it across every step that
\* is not a create_session or a destroy_session applied to that identity.
C1_LoginThenResolve ==
    [][ /\ (ret'.op = "create_session" /\ ret'.kind = "str")
              => \A t \in {ret'.val} :
                    /\ IdOf(ret'.arg) # None
                    /\ UserFromSessionId(t)' = IdOf(ret'.arg)
        /\ \A i \in DOMAIN users : \A t \in {users[i].session_id} \ {None} :
              ( /\ ~(ret'.op = "create_session" /\ ret'.arg = users[i].email)
                /\ ~(ret'.op = "destroy_session" /\ ret'.arg = users[i].id) )
                  => UserFromSessionId(t)' = users[i].id
      ]_vars

\* A session id resolved to its identity by a get_user_from_session_id call.
C1_Witness ==
    /\ ret.op = "get_user_from_session_id"
    /\ ret.kind = "User"
    /\ Row(ret.val).session_id = ret.arg

\* C2: a session id that destroy_session took from an identity resolves to no
\* identity in any later state.
C2_LoggedOutNeverResolves ==
    \A t \in loggedOut : UserFromSessionId(t) = None

\* A logged-out session id was presented again, after some identity had
\* logged in anew, and resolved to nothing.
C2_Witness ==
    /\ ret.op = "get_user_from_session_id"
    /\ ret.arg \in loggedOut
    /\ ret.kind = "None"
    /\ \E i \in DOMAIN users : users[i].session_id # None

\* C3: register_user for an email that is already registered raises
\* ValueError and leaves every row of the store as it was.
C3_DuplicateRegisterFails ==
    [][ (ret'.op = "register_user" /\ Registered(ret'.arg))
            => /\ ret'.kind = "raise"
               /\ ret'.val = "ValueError"
               /\ users' = users
      ]_vars

\* register_user was refused for a registered email.
C3_Witness ==
    /\ ret.op = "register_user"
    /\ ret.kind = "raise"
    /\ Registered(ret.arg)

\* C4: the token get_reset_password_token(email) returns designates that
\* email's identity to update_password, and update_password(t, password) with
\* a token that designates an identity returns normally and leaves valid_login
\* true for that identity's email and the new password.
C4_ResetThenLogin ==
    [][ /\ (ret'.op = "get_reset_password_token" /\ ret'.kind = "str")
              => \A t \in {ret'.val} :
                    /\ IdOf(ret'.arg) # None
                    /\ ResetTokenOwner(t)' = IdOf(ret'.arg)
        /\ (ret'.op = "update_password" /\ ResetTokenOwner(ret'.arg) # None)
              => /\ ret'.kind = "None"
                 /\ \A t \in {ret'.arg} :
                    \A email \in {Row(ResetTokenOwner(t)).email} :
                    \A password \in Passwords, salt \in Salts :
                        UpdatePassword(t, password, salt)
                            => ValidLoginResult(email, password)'
      ]_vars

\* update_password accepted a token and the new password logs in.
C4_Witness ==
    /\ ret.op = "update_password"
    /\ ret.kind = "None"
    /\ \E email \in Emails, password \in Passwords :
           ValidLoginResult(email, password)

\* C5: a successful update_password(t, password) stores the new hash and
\* clears reset_token in the one update, after which t designates no identity;
\* every update_password with a token consumed earlier raises ValueError and
\* leaves the store as it was.
C5_ResetTokenSingleUse ==
    [][ ret'.op = "update_password"
            => IF ret'.arg \in consumed
               THEN /\ ret'.kind = "raise"
                    /\ ret'.val = "ValueError"
                    /\ users' = users
               ELSE ret'.kind = "None"
                    => \A t \in {ret'.arg} : \A id \in {ResetTokenOwner(t)} :
                       \A password \in Passwords, salt \in Salts :
                           UpdatePassword(t, password, salt)
                               => /\ Row(id)'.hashed_password
                                         = HashPw(password, salt)
                                  /\ Row(id)'.reset_token = None
                                  /\ ResetTokenOwner(t)' = None
      ]_vars

\* update_password was refused for a token that had been consumed.
C5_Witness ==
    /\ ret.op = "update_password"
    /\ ret.arg \in consumed
    /\ ret = Raised("update_password", ret.arg, "ValueError")

Gated(req) == AuthSelected /\ RequireAuth(req.path, excluded_paths)

\* C7 as stated: on a gated path for which no identity resolves,
\* before_request answers 401 when the request has neither an Authorization
\* header nor a session cookie, and 403 when it has one of them.
C7_AsStated ==
    ( /\ response.op = "before_request"
      /\ Gated(request)
      /\ CurrentUser(request) = NoneStr )
        => IF request.authorization = NoneStr /\ request.cookie = NoneStr
           THEN response.status = 401
           ELSE response.status = 403

\* C7: on a gated path for which no identity resolves, before_request answers
\* 401 when the request has neither a non-empty Authorization header nor a
\* non-empty session cookie (an absent and an empty value are treated alike),
\* and 403 when it has one of them.
C7_GateStatus ==
    ( /\ response.op = "before_request"
      /\ Gated(request)
      /\ CurrentUser(request) = NoneStr )
        => IF /\ request.authorization \in {NoneStr, ""}
              /\ request.cookie \in {NoneStr, ""}
           THEN response.status = 401
           ELSE response.status = 403

\* The gate refused with 403 a cookie that resolves to no identity, and with
\* no Authorization header.
C7_Witness ==
    /\ response = Response("before_request", 403, NoneStr, NoneStr, FALSE)
    /\ request.authorization = NoneStr
    /\ request.cookie = "bogus"

\* C8: a create_session that returns a token leaves the token the identity
\* held before resolving to nothing, and in every state at most one token
\* resolves to any one identity.
C8_LoginOverwritesSession ==
    [][ /\ (ret'.op = "create_session" /\ ret'.kind = "str")
              => \A t \in {Row(IdOf(ret'.arg)).session_id} \ {None} :
                    UserFromSessionId(t)' = None
        /\ users' # users
              => \A i \in DOMAIN users' :
                    Cardinality({t \in Tokens :
                                    UserFromSessionId(t)' = users'[i].id}) <= 1
      ]_vars

\* The only identity logged in a second time without logging out: both uuids
\* drawn so far were its session ids.
C8_Witness ==
    /\ Len(users) = 1
    /\ loggedOut = {}
    /\ consumed = {}
    /\ users[1].reset_token = None
    /\ ret = Returned("create_session", users[1].email, "str", 2)

\* C9: no session id is held by two rows, so a session id resolves to at most
\* one identity.
C9_SessionIdsUnique ==
    \A t \in Tokens \ {None} : Cardinality(Matching("session_id", t)) <= 1

\* Two identities are logged in at once.
C9_Witness ==
    \E i, j \in DOMAIN users :
        i # j /\ users[i].session_id # None /\ users[j].session_id # None

\* C10: no two rows of the store have the same email.
C10_EmailsUnique ==
    \A i, j \in DOMAIN users : users[i].email = users[j].email => i = j

\* Two identities are registered and a token has been issued.
C10_Witness ==
    /\ Len(users) = 2
    /\ nextUuid > 1
    /\ ret.op = "register_user"
    /\ ret.kind = "raise"

\* The callers of register_user(email, ...) whose call has ended.
EndedRegister(email) ==
    {c \in Callers : /\ calls[c].op = "register_user"
                     /\ calls[c].pc = "done"
                     /\ calls[c].email = email}

\* C11 as stated: whatever the interleaving of the callers' lookups and
\* inserts, at most one register_user call per email returns a User, every
\* call made for an email that has a row by then raises ValueError, and the
\* store never holds two rows with one email.
C11_OneRegistrationPerEmail ==
    /\ \A email \in Emails :
          Cardinality({c \in EndedRegister(email) : calls[c].out = "User"}) <= 1
    /\ \A i, j \in DOMAIN users : users[i].email = users[j].email => i = j

\* Two callers have registered one email and both were returned a User.
C11_Witness ==
    \E c, d \in Callers :
        /\ c # d
        /\ calls[c].out = "User" /\ calls[d].out = "User"
        /\ calls[c].email = calls[d].email

\* C12: after every get_user_from_session_id(t) call, the call has returned
\* None when t is None or no row holds t as its session_id, and otherwise a
\* User whose session_id is t; in no state does any token, None included,
\* resolve to a row whose session_id is None.
C12_AbsentOrUnknownIsNone ==
    /\ ret.op = "get_user_from_session_id"
          => IF ret.arg = None
                \/ \A i \in DOMAIN users : users[i].session_id # ret.arg
             THEN ret.kind = "None" /\ ret.val = None
             ELSE /\ ret.kind = "User"
                  /\ Row(ret.val).session_id = ret.arg
    /\ \A t \in Tokens :
          UserFromSessionId(t) # None
              => Row(UserFromSessionId(t)).session_id # None

\* get_user_from_session_id(None) returned None while one identity has no
\* session and another has one.
C12_Witness ==
    /\ ret = Returned("get_user_from_session_id", None, "None", None)
    /\ \E i, j \in DOMAIN users :
          users[i].session_id = None /\ users[j].session_id # None

\* C13 as stated: whatever calls are made to Auth, every identity that holds
\* a session id has had a valid_login return True for its email before.
C13_AsStated ==
    \A i \in DOMAIN users :
        users[i].session_id # None => users[i].email \in verified

\* C13: a row's session_id is given a new value only by a create_session
\* call for that row's email, which returns the value it stored; valid_login
\* changes no row whether it returns True or False; and a create_session that
\* directly follows a valid_login that returned True for the same email (the
\* login sequence) stores its token for a verified identity.
C13_TokenOnlyByCreateSession ==
    [][ /\ \A i \in DOMAIN users :
              users'[i].session_id \notin {None, users[i].session_id}
                  => ret' = Returned("create_session", users[i].email, "str",
                                     users'[i].session_id)
        /\ ret'.op = "valid_login" => users' = users
        /\ ( /\ ret'.op = "create_session"
             /\ ret'.kind = "str"
             /\ ret.op = "valid_login"
             /\ ret.arg = ret'.arg
             /\ ret.val = TRUE )
              => ret'.arg \in verified'
      ]_vars

\* A valid_login has returned False for a registered email, which holds no
\* session id, while another identity holds one.
C13_Witness ==
    /\ ret = Returned("valid_login", ret.arg, "bool", FALSE)
    /\ Registered(ret.arg)
    /\ Row(IdOf(ret.arg)).session_id = None
    /\ \E i \in DOMAIN users :
          users[i].session_id # None /\ users[i].email \in verified

\* C14: destroy_session(id) for the id of a row returns None, raising
\* nothing, leaves that row's session_id None and every other column and row
\* as it was, and leaves the whole store as it was when the row had no
\* session; so a second application changes nothing the first has not.
C14_DestroySessionIdempotent ==
    [][ (ret'.op = "destroy_session" /\ FindUserBy("id", ret'.arg).exc = "None")
            => \A id \in {ret'.arg} :
                  /\ ret' = Returned("destroy_session", id, "None", None)
                  /\ Row(id)'.session_id = None
                  /\ users' = [i \in DOMAIN users |->
                                  IF users[i].id = id
                                  THEN [users[i] EXCEPT !.session_id = None]
                                  ELSE users[i]]
                  /\ Row(id).session_id = None => users' = users
      ]_vars

\* destroy_session returned None for a registered identity that never had a
\* session taken from it, while another identity is logged in.
C14_Witness ==
    /\ ret.op = "destroy_session"
    /\ ret.kind = "None"
    /\ FindUserBy("id", ret.arg).exc = "None"
    /\ loggedOut = {}
    /\ \E i \in DOMAIN users : users[i].session_id # None

\* C15: a get_reset_password_token that returns a token leaves the token
\* the identity held before designating no identity and the new one
\* designating the identity; a uuid already drawn that designates no identity
\* never designates one later; and update_password raises ValueError, changing
\* no row, for a token that designates no identity and returns normally for
\* one that does.  So of two tokens requested for one email only the later is
\* accepted.
C15_ResetRequestOverwrites ==
    [][ /\ (ret'.op = "get_reset_password_token" /\ ret'.kind = "str")
              => /\ \A old \in {Row(IdOf(ret'.arg)).reset_token} \ {None} :
                       ResetTokenOwner(old)' = None
                 /\ \A t \in {ret'.val} : \A id \in {IdOf(ret'.arg)} :
                       /\ ResetTokenOwner(t)' = id
                       /\ Row(id)'.reset_token = t
        /\ \A t \in 1..(nextUuid - 1) :
              ResetTokenOwner(t) = None => ResetTokenOwner(t)' = None
        /\ ret'.op = "update_password"
              => IF ResetTokenOwner(ret'.arg) = None
                 THEN /\ ret' = Raised("update_password", ret'.arg, "ValueError")
                      /\ users' = users
                 ELSE ret'.kind = "None"
      ]_vars

\* update_password refused the first of two reset tokens requested for the
\* only identity, which holds the second.
C15_Witness ==
    /\ ret = Raised("update_password", 1, "ValueError")
    /\ Len(users) = 1
    /\ users[1].reset_token = 2
    /\ users[1].session_id = None
    /\ loggedOut = {}
    /\ consumed = {}

\* The stored user the Basic credential of the request's Authorization
\* header belongs to, and the stored user the session map gives for the
\* request's session cookie; NoneStr when there is none.
ByHeader(req) ==
    IF req.authorization = "Basic YUB4LmNvbTpwdzE=" THEN "u1" ELSE NoneStr

ByCookie(req) ==
    IF /\ req.cookie \in DOMAIN user_id_by_session_id
       /\ \E u \in StoredUsers : u.id = user_id_by_session_id[req.cookie]
    THEN user_id_by_session_id[req.cookie]
    ELSE NoneStr

\* C16 as stated: on a gated path the gate attaches the identity the
\* Authorization header resolves to, else the one the session cookie resolves
\* to, and leaves the request without an identity only if both fail.
C16_AsStated ==
    (response.op = "before_request" /\ Gated(request))
        => response.current_user =
              IF ByHeader(request) # NoneStr
              THEN ByHeader(request)
              ELSE ByCookie(request)

\* C16: on a gated path the gate resolves the identity with the one
\* authenticator AUTH_TYPE selects: from the Authorization header alone under
\* basic_auth, from the session cookie alone under session_auth, from neither
\* under auth.  It attaches that identity and lets the request through, or
\* attaches none and refuses the request, whatever the other credential
\* would resolve to.
C16_SelectedAuthenticatorOnly ==
    (response.op = "before_request" /\ Gated(request))
        => LET resolved == CASE AUTH_TYPE = "basic_auth" -> ByHeader(request)
                             [] AUTH_TYPE = "session_auth" -> ByCookie(request)
                             [] OTHER -> NoneStr
           IN  /\ response.current_user = resolved
               /\ response.status = 0 <=> resolved # NoneStr

\* Under session_auth the gate refused with 403 a request whose Authorization
\* header carries a stored user's credentials and whose cookie is unknown.
C16_Witness ==
    /\ AUTH_TYPE = "session_auth"
    /\ response = Response("before_request", 403, NoneStr, NoneStr, FALSE)
    /\ ByHeader(request) = "u1"
    /\ request.cookie = "bogus"
    /\ user_id_by_session_id # <<>>

\* str[-1] of a non-empty string, and the string without it.
Last(str) == str[Len(str)]

Front(str) == SubSeq(str, 1, Len(str) - 1)

\* A path or pattern with one trailing slash added when it ends in none, and
\* with one removed when it ends in one.
Toggled(str) ==
    IF Len(str) > 0 /\ Last(str) = "/" THEN Front(str) ELSE Append(str, "/")

\* The list excluded with entry k replaced by pattern, and with entry k left
\* out.
WithEntry(excluded, k, pattern) == [excluded EXCEPT ![k] = pattern]

WithoutEntry(excluded, k) ==
    [j \in 1..(Len(excluded) - 1) |->
        IF j < k THEN excluded[j] ELSE excluded[j + 1]]

\* C17 as stated: the outcome of require_auth(path, excluded_paths) is the
\* same when one trailing slash is added to the path, when one is removed from
\* it, and when one is added to or removed from an entry of excluded_paths
\* that does not end in "*".
C17_AsStated ==
    (authCall.outcome # "<pending>" /\ authCall.path # NonePath)
        => /\ authCall.outcome
                  = RequireAuthOutcome(Append(authCall.path, "/"),
                                       authCall.excluded_paths)
           /\ authCall.outcome
                  = RequireAuthOutcome(Toggled(authCall.path),
                                       authCall.excluded_paths)
           /\ authCall.excluded_paths # NoneList
                  => \A k \in DOMAIN authCall.excluded_paths :
                        ~EndsWithStar(authCall.excluded_paths[k])
                            => authCall.outcome
                                  = RequireAuthOutcome(authCall.path,
                                        WithEntry(authCall.excluded_paths, k,
                                            Toggled(authCall.excluded_paths[k])))

\* C17: require_auth gives a path that ends in no slash the outcome it gives
\* that path with one slash appended, for every excluded_paths; the entries of
\* excluded_paths are compared as written, so an entry that ends neither in
\* "/" nor in "*" exempts no path: leaving it out changes no outcome.
C17_PathSlashAppended ==
    ( /\ authCall.outcome # "<pending>"
      /\ authCall.path # NonePath
      /\ Len(authCall.path) > 0 )
        => /\ Last(authCall.path) # "/"
                  => authCall.outcome
                        = RequireAuthOutcome(Append(authCall.path, "/"),
                                             authCall.excluded_paths)
           /\ authCall.excluded_paths # NoneList
                  => \A k \in DOMAIN authCall.excluded_paths :
                        Last(authCall.excluded_paths[k]) \notin {"/", "*"}
                            => authCall.outcome
                                  = RequireAuthOutcome(authCall.path,
                                        WithoutEntry(authCall.excluded_paths, k))

\* require_auth("/a", ["/a", "/a/"]) returned False: the path was matched with
\* the entry that ends in a slash.
C17_Witness ==
    /\ authCall.outcome = "False"
    /\ authCall.path = <<"/", "a">>
    /\ authCall.excluded_paths = << <<"/", "a">>, <<"/", "a", "/">> >>

\* A path or pattern with a slash appended when it ends in none.
Slashed(str) ==
    IF Len(str) > 0 /\ Last(str) = "/" THEN str ELSE Append(str, "/")

\* path matches pattern on the narrowest reading of "matches": it is the
\* exact pattern, or it begins with the prefix of a pattern that ends in "*".
MatchesAsWritten(path, pattern) ==
    IF EndsWithStar(pattern)
    THEN StartsWith(path, Front(pattern))
    ELSE path = pattern

\* path matches pattern on the widest reading: the same, with trailing
\* slashes disregarded on the path and on an exact pattern.
MatchesUpToSlash(path, pattern) ==
    IF EndsWithStar(pattern)
    THEN StartsWith(path, Front(pattern))
            \/ StartsWith(Slashed(path), Front(pattern))
    ELSE Slashed(path) = Slashed(pattern)

SetsPasswordOf(email) ==
    \/ (ret'.op = "register_user" /\ ret'.arg = email /\ ret'.kind = "User")
    \/ /\ ret'.op = "update_password"
       /\ ret'.kind = "None"
       /\ Registered(email)
       /\ ResetTokenOwner(ret'.arg) = IdOf(email)

\* C19 as stated: valid_login returns a bool; for an email that has no
\* identity it is False for every password; once a password is set for an
\* email (by register_user or by update_password), valid_login is True for
\* that password and False for every other one, and stays so until the next
\* password is set for it (valid_login reads nothing but the rows, so only
\* the steps that change a row are examined for that).
C19_AsStated ==
    [][ /\ ret'.op = "valid_login"
              => /\ ret'.kind = "bool"
                 /\ \E password \in PasswordArgs :
                       ret'.val = ValidLoginResult(ret'.arg, password)
        /\ (ret'.op = "register_user" /\ ret'.kind = "User")
              => \A email \in {ret'.arg} :
                 \A password \in PasswordArgs, salt \in Salts :
                    RegisterUser(email, password, salt, TRUE)
                        => \A other \in PasswordArgs :
                              ValidLoginResult(email, other)'
                                  = (other = password)
        /\ (ret'.op = "update_password" /\ ret'.kind = "None")
              => \A t \in {ret'.arg} :
                 \A email \in {Row(ResetTokenOwner(t)).email} :
                 \A password \in PasswordArgs, salt \in Salts :
                    UpdatePassword(t, password, salt)
                        => \A other \in PasswordArgs :
                              ValidLoginResult(email, other)'
                                  = (other = password)
        /\ users' # users
              => \A email \in Emails, password \in PasswordArgs :
                    /\ ~Registered(email)' => ~ValidLoginResult(email, password)'
                    /\ ~SetsPasswordOf(email)
                          => ValidLoginResult(email, password)'
                                = ValidLoginResult(email, password)
      ]_vars

\* C19: valid_login returns a bool, or raises ValueError for a registered
\* email when given a password of more than 72 bytes on a bcrypt that rejects
\* one; for an email that has no identity it is False for every password;
\* once a password is set for an email, valid_login is True for the passwords
\* that agree with it in their first 72 bytes and False for every other one,
\* the password a reset replaced included, and stays so until the next
\* password is set for it.
C19_ValidLoginFirst72 ==
    [][ /\ ret'.op = "valid_login"
              => \/ /\ ret'.kind = "bool"
                    /\ \E password \in PasswordArgs :
                          ret'.val = ValidLoginResult(ret'.arg, password)
                 \/ \E email \in {ret'.arg} : \E password \in LongPasswords :
                       ValidLoginTooLong(email, password)
        /\ (ret'.op = "register_user" /\ ret'.kind = "User")
              => \A email \in {ret'.arg} :
                 \A password \in PasswordArgs, salt \in Salts :
                    RegisterUser(email, password, salt, TRUE)
                        => \A other \in PasswordArgs :
                              ValidLoginResult(email, other)'
                                  = (First72(other) = First72(password))
        /\ (ret'.op = "update_password" /\ ret'.kind = "None")
              => \A t \in {ret'.arg} :
                 \A email \in {Row(ResetTokenOwner(t)).email} :
                 \A password \in PasswordArgs, salt \in Salts :
                    UpdatePassword(t, password, salt)
                        => \A other \in PasswordArgs :
                              ValidLoginResult(email, other)'
                                  = (First72(other) = First72(password))
        /\ users' # users
              => \A email \in Emails, password \in PasswordArgs :
                    /\ ~Registered(email)' => ~ValidLoginResult(email, password)'
                    /\ ~SetsPasswordOf(email)
                          => ValidLoginResult(email, password)'
                                = ValidLoginResult(email, password)
      ]_vars

\* After a reset has replaced the password "pw1" of the only identity by a
\* longer one, valid_login has returned False, and "pw1" no longer logs in.
C19_Witness ==
    /\ Len(users) = 1
    /\ consumed # {}
    /\ users[1].hashed_password.pw = "<72 bytes>"
    /\ ret = Returned("valid_login", users[1].email, "bool", FALSE)
    /\ ~ValidLoginResult(users[1].email, "pw1")

\* C20 as stated: a register_user call for an email that has no identity
\* either returns the User it added, the store one row longer, or raises,
\* the store as it was; so when the commit of the new row fails, the call
\* raises and leaves no row.
C20_AsStated ==
    [][ (ret'.op = "register_user" /\ ~Registered(ret'.arg))
            => \/ /\ ret'.kind = "User"
                  /\ Len(users') = Len(users) + 1
               \/ /\ ret'.kind = "raise"
                  /\ users' = users
      ]_vars

\* register_user has returned None, raising nothing, for an email that has no
\* identity: the commit of the new row failed and add_user swallowed the
\* exception.
C20_Witness ==
    /\ ret.op = "register_user"
    /\ ret.kind = "None"
    /\ ~Registered(ret.arg)

(* ---- C21: concurrent create_session and destroy_session ---- *)

\* The create_session and destroy_session calls that reached update_user for
\* the identity id.
SessionCallsOn(id) ==
    {c \in Callers : /\ calls[c].op \in {"create_session", "destroy_session"}
                     /\ calls[c].user = id}

\* The update_password calls that reached update_user for the identity id.
PasswordCallsOn(id) ==
    {c \in Callers : calls[c].op = "update_password" /\ calls[c].user = id}

\* Once the session calls on an identity have all ended, its row is what the
\* calls leave in one of their serial orders: session_id is what the last of
\* them wrote (None, or the id a create_session returned) and never the value
\* the row held before, and id, email and (no password call running) the hash
\* are as registered.
SerialSessionOutcome ==
    \A i \in DOMAIN users :
        \A S \in {SessionCallsOn(users[i].id)} :
            (S # {} /\ \A c \in S : calls[c].pc = "done")
            => /\ \A c \in S : calls[c].out \in {"str", "None"}
               /\ users[i].session_id \in {calls[c].kwargs.session_id : c \in S}
               /\ users[i].id = RegisteredRows[i].id
               /\ users[i].email = RegisteredRows[i].email
               /\ PasswordCallsOn(users[i].id) = {}
                  => users[i].hashed_password = RegisteredRows[i].hashed_password

\* A step that changes the table is the UPDATE of one update_user call, whole:
\* in the rows of that id every given column has its new value and every other
\* column its old one, and the other rows are as they were.
WholeUpdate ==
    users' # users
    => \E c \in Callers :
          /\ calls[c].pc = "update" /\ calls'[c].pc = "done"
          /\ DOMAIN users' = DOMAIN users
          /\ \A i \in DOMAIN users :
                IF users[i].id = calls[c].user
                THEN \A k \in DOMAIN users[i] :
                        users'[i][k] = IF k \in DOMAIN calls[c].kwargs
                                       THEN calls[c].kwargs[k]
                                       ELSE users[i][k]
                ELSE users'[i] = users[i]

\* C21: under any interleaving of a create_session and a destroy_session for
\* one identity the row ends as one of the serial orders leaves it
\* (session_id absent or the returned session id, never a stale one), and no
\* update_user is seen half applied.
C21_SessionCallsSerial == []SerialSessionOutcome /\ [][WholeUpdate]_vars

\* A create_session and a destroy_session for identity 1 have both ended, the
\* create_session having run its UPDATE while the destroy_session was inside
\* update_user, and the row held session id 1 before.
C21_Witness ==
    \E c \in Callers, d \in Callers :
        /\ calls[c].op = "create_session" /\ calls[c].out = "str"
        /\ calls[d].op = "destroy_session" /\ calls[d].out = "None"
        /\ calls[c].user = 1 /\ calls[d].user = 1
        /\ d \in calls[c].during
        /\ calls[c].kwargs.session_id = 2
        /\ users[1].session_id = None

(* ---- C22: concurrent update_password with one reset token ---- *)

\* The update_password calls given reset_token that have returned None.
ChangedPasswordWith(reset_token) ==
    {c \in Callers : /\ calls[c].op = "update_password"
                     /\ calls[c].arg = reset_token
                     /\ calls[c].pc = "done"
                     /\ calls[c].out = "None"}

\* C22: a reset token authorizes one password change even under concurrency:
\* of the update_password calls given the same reset token at most one
\* returns, the others raise ValueError.  (No call of SpecCalls issues a reset
\* token, so a token is issued at most once.)
C22_OneChangePerToken ==
    \A reset_token \in Tokens :
        Cardinality(ChangedPasswordWith(reset_token)) <= 1

\* Two update_password calls given reset token 1 with different passwords have
\* both returned None, the second UPDATE having replaced the hash the first
\* one stored.
C22_Witness ==
    \E c \in Callers, d \in Callers :
        /\ {c, d} \subseteq ChangedPasswordWith(1)
        /\ c \in calls[d].during
        /\ calls[c].kwargs.hashed_password.pw # calls[d].kwargs.hashed_password.pw
        /\ users[1].hashed_password = calls[c].kwargs.hashed_password
        /\ users[1].reset_token = None

(* ---- C23: session state and reset state are independent ---- *)

\* Whether row is the row the call that has just ended was about: the one
\* with the email, the id or the reset token the call was given.
Addressed(row) ==
    \/ /\ ret'.op \in {"create_session", "get_reset_password_token"}
       /\ row.email = ret'.arg
    \/ /\ ret'.op = "destroy_session"
       /\ row.id = ret'.arg
    \/ /\ ret'.op = "update_password"
       /\ ret'.arg # None
       /\ row.reset_token = ret'.arg

\* C23: create_session and destroy_session leave the identity's password hash
\* and reset_token as they were, get_reset_password_token and update_password
\* leave its session_id as it was, and no operation changes a field of an
\* identity other than the one it was called for.
C23_PartialAndIndependent ==
    [][ users' # users
        => \A i \in DOMAIN users :
              /\ i \in DOMAIN users'
              /\ ret'.op \in {"create_session", "destroy_session"}
                 => /\ users'[i].hashed_password = users[i].hashed_password
                    /\ users'[i].reset_token = users[i].reset_token
              /\ ret'.op \in {"get_reset_password_token", "update_password"}
                 => users'[i].session_id = users[i].session_id
              /\ ~Addressed(users[i]) => users'[i] = users[i]
      ]_vars

\* update_password has changed the password of an identity that holds a
\* session, and the session is still there; the other identity has its
\* password as registered.
C23_Witness ==
    /\ ret.op = "update_password"
    /\ ret.kind = "None"
    /\ Len(users) = 2
    /\ \E i \in DOMAIN users, j \in DOMAIN users :
          /\ users[i].hashed_password.pw = "pw2"
          /\ users[i].session_id # None
          /\ users[i].reset_token = None
          /\ users[j].hashed_password = HashPw("pw1", "salt1")
          /\ users[j].session_id = None

(* ---- C24: identities are never removed ---- *)

\* C24: every identity in the store stays in it with the id and the email it
\* was created with: no operation removes a row or changes its id or email.
C24_IdentitiesKept ==
    [][ \A i \in DOMAIN users :
           /\ i \in DOMAIN users'
           /\ users'[i].id = users[i].id
           /\ users'[i].email = users[i].email
           /\ users[i].id = i
      ]_vars

\* Both identities are registered, and each has since been the subject of a
\* call that wrote its row (a login and a completed password reset).
C24_Witness ==
    /\ Len(users) = 2
    /\ users[1].email # users[2].email
    /\ consumed # {}
    /\ ret.op = "destroy_session"
    /\ ret.arg \in {users[1].id, users[2].id}
    /\ loggedOut # {}

(* ---- C25: durability across a restart ---- *)

\* C25: the effects of register, login and reset are durable across a
\* restart: once a new Auth is constructed over the same database, every
\* email registered before is still found and every session id that resolved
\* to an identity still resolves to it.
C25_DurableAcrossRestart ==
    [][ ret'.op = "__init__"
        => /\ \A email \in Emails : Registered(email) => Registered(email)'
           /\ \A session_id \in Tokens :
                 UserFromSessionId(session_id) # None
                 => UserFromSessionId(session_id)' = UserFromSessionId(session_id)
      ]_vars

\* A new Auth has been constructed after identities were registered and a
\* session id or reset token was issued, and the table is empty.
C25_Witness ==
    /\ ret.op = "__init__"
    /\ nextUuid > 1
    /\ users = <<>>
    /\ \A email \in Emails : ~Registered(email)

(* ---- C26: update_password with no reset token ---- *)

\* C26: update_password called with None as reset token raises ValueError and
\* leaves the store as it was, rows without a pending reset token
\* notwithstanding; a password hash changes only in an update_password given
\* the reset token the row holds, and a row comes to hold a reset token only
\* as the one get_reset_password_token returns for its email.
C26_NoTokenNoChange ==
    [][ /\ (ret'.op = "update_password" /\ ret'.arg = None)
           => /\ ret'.kind = "raise"
              /\ ret'.val = "ValueError"
              /\ users' = users
        /\ users' # users
           => \A i \in DOMAIN users :
                 /\ users'[i].hashed_password # users[i].hashed_password
                    => /\ ret'.op = "update_password"
                       /\ ret'.arg # None
                       /\ users[i].reset_token = ret'.arg
                 /\ users'[i].reset_token \notin {None, users[i].reset_token}
                    => /\ ret'.op = "get_reset_password_token"
                       /\ ret'.arg = users[i].email
                       /\ ret'.kind = "str"
                       /\ ret'.val = users'[i].reset_token
      ]_vars

\* update_password(None, ...) has raised ValueError while one identity has no
\* pending reset token and another has one.
C26_Witness ==
    /\ ret = Raised("update_password", None, "ValueError")
    /\ \E i \in DOMAIN users : users[i].reset_token = None
    /\ \E i \in DOMAIN users : users[i].reset_token # None

(* ---- C27: request.current_user under concurrent requests ---- *)

\* The before_request calls that have let a request to a gated path through.
LetThrough ==
    {c \in GateCallers : /\ calls[c].op = "before_request"
                         /\ calls[c].pc = "done"
                         /\ calls[c].status = 0
                         /\ Gated(calls[c].req)}

\* C27: whenever before_request lets a request to a gated path through, the
\* identity it has attached to the request is a resolved user, never None,
\* whatever sessions other requests create or destroy meanwhile.
C27_AttachedUserResolved ==
    \A c \in LetThrough :
        calls[c].attached /\ calls[c].current_user # NoneStr

\* Under session_auth a request with no Authorization header and the cookie
\* of a session that a destroy_session has since removed was let through to
\* a gated path with request.current_user None.
C27_Witness ==
    /\ AUTH_TYPE = "session_auth"
    /\ response.op = "destroy_session"
    /\ response.destroyed
    /\ \E c \in LetThrough :
          /\ calls[c].attached
          /\ calls[c].current_user = NoneStr
          /\ calls[c].req.authorization = NoneStr
          /\ calls[c].req.cookie = request.cookie
          /\ calls[c].req.cookie \in issued
          /\ calls[c].req.cookie \notin DOMAIN user_id_by_session_id

(* ---- C28: SessionAuth's session map ---- *)

\* The session map without the entry of session_id.
WithoutSession(session_id) ==
    [s \in DOMAIN user_id_by_session_id \ {session_id} |->
        user_id_by_session_id[s]]

\* C28: a session id that create_session(user_id) returns is new and maps to
\* user_id, and goes on mapping to it until a destroy_session for a request
\* with that session id as cookie returns True, from when on it maps to
\* nothing; every other session, of the same user or not, is left as it was
\* by a create_session and by a destroy_session; and destroy_session returns
\* False and leaves the map as it was when the request has no cookie or a
\* session id that is not in the map.
C28_SessionMap ==
    [][ /\ (response'.op = "create_session" /\ response'.session_id # NoneStr)
           => /\ response'.session_id \notin DOMAIN user_id_by_session_id
              /\ response'.session_id \notin issued
              /\ DOMAIN user_id_by_session_id'
                    = DOMAIN user_id_by_session_id \cup {response'.session_id}
              /\ user_id_by_session_id'[response'.session_id] = request'.user_id
        /\ (response'.op = "destroy_session" /\ response'.destroyed)
           => /\ request'.cookie \in DOMAIN user_id_by_session_id
              /\ user_id_by_session_id' = WithoutSession(request'.cookie)
        /\ ( /\ response'.op = "destroy_session"
             /\ \/ request'.cookie = NoneStr
                \/ request'.cookie \notin DOMAIN user_id_by_session_id )
           => /\ ~response'.destroyed
              /\ user_id_by_session_id' = user_id_by_session_id
        /\ \A s \in DOMAIN user_id_by_session_id :
              \/ /\ s \in DOMAIN user_id_by_session_id'
                 /\ user_id_by_session_id'[s] = user_id_by_session_id[s]
              \/ /\ response'.op = "destroy_session"
                 /\ response'.destroyed
                 /\ request'.cookie = s
        /\ \A s \in issued \ DOMAIN user_id_by_session_id :
              s \notin DOMAIN user_id_by_session_id'
      ]_vars

\* Of two sessions of user u1 the first has been destroyed, with True
\* returned, and the second still maps to u1.
C28_Witness ==
    /\ response = Response("destroy_session", 0, NoneStr, NoneStr, TRUE)
    /\ request.cookie = "sid1"
    /\ issued = {"sid1", "sid2"}
    /\ DOMAIN user_id_by_session_id = {"sid2"}
    /\ user_id_by_session_id["sid2"] = "u1"
====
